---- MODULE Spec2Model ----
(***************************************************************************)
(* StripeKit: the licensing gateway (validate-key, create-subscription,    *)
(* generate-key, customer-info in four server files) over a remote billing *)
(* provider, and the SDK's webhook pipeline (stripekit.js).                *)
(*                                                                         *)
(* A request handler is an async function: it runs to the next await, the  *)
(* remote call takes effect at the provider, and the handler resumes.  An  *)
(* action below is one remote call together with the synchronous code that *)
(* follows it up to the next await (or up to the response).                *)
(***************************************************************************)
EXTENDS Integers, Sequences, FiniteSets, TLC

\* ------------------------------------------------------------------ bounds

MaxRequests == 2      \* requests the gateway receives in one behaviour
MaxInitSubs == 2      \* subscriptions the pre-existing account starts with
MaxDeliveries == 2    \* webhook deliveries and other SDK calls in one behaviour
MaxRegistrations == 2 \* handler registrations in one behaviour

\* ------------------------------------------------------- program constants

CustomerPageLimit == 100   \* customers.list({ limit: 100 })
SubscriptionPageLimit == 1 \* subscriptions.list({ ..., limit: 1 })
EmailPageLimit == 1        \* customers.list({ email, limit: 1 })

\* The server files that serve the endpoints.
Variants == {"part_001", "server", "api_validate", "api_subscriptions"}
ValidateVariants == Variants
CreateVariants == {"part_001", "server", "api_subscriptions"}
InfoVariants == {"api_validate", "api_subscriptions"}

\* ---------------------------------------------------------------- strings

\* A key is its prefix and the rest; String.startsWith compares the prefix.
ProdPrefix == "sk_prod_"
EmptyKey == [prefix |-> "", body |-> ""]                   \* '' / missing
Undefined == [prefix |-> "", body |-> "<undefined>"]      \* metadata.apiKey unset
NotARealKey == [prefix |-> "", body |-> "not_a_real_key"]
ProdKey0 == [prefix |-> ProdPrefix, body |-> "r0"]
RandomTails == <<"r1", "r2", "r3", "r4">>   \* Math.random().toString(36) draws

startsWith(k, p) == k.prefix = p

\* 'sk_prod_' + Math.random().toString(36).substring(2, 25): the n-th draw.
\* Distinct draws give distinct keys (a collision has negligible probability).
generateApiKey(n) == [prefix |-> ProdPrefix, body |-> RandomTails[n]]

Statuses == {"active", "past_due", "canceled", "incomplete", "unpaid", "trialing"}
Emails == {"a@x", "b@x"}
Plans == {"", "pay_as_you_go", "starter", "bogus"}   \* "" is a missing field

\* ----------------------------------------------------------------- helpers

Min(a, b) == IF a < b THEN a ELSE b

Take(s, n) == SubSeq(s, 1, Min(n, Len(s)))

\* Array.prototype.find: the index of the first element satisfying P, 0 if none.
FindIndex(s, P(_)) ==
  LET idx == {i \in 1..Len(s) : P(s[i])}
  IN IF idx = {} THEN 0 ELSE CHOOSE i \in idx : \A j \in idx : i <= j

Count(s, x) == Cardinality({i \in 1..Len(s) : s[i] = x})

VARIABLES
  customers,    \* provider: accounts in listing order (newest first)
  subs,         \* provider: subscriptions in listing order (newest first)
  drawn,        \* number of random keys drawn so far
  reqs,         \* gateway: the in-flight / last request of each slot
  started,      \* number of requests received
  issued,       \* history: <<key, customer id>> pairs returned to a caller
  sdk,          \* SDK instance: apiKey, validated, webhookHandlers
  call,         \* SDK: the handleWebhook call in progress / last finished
  deliveries    \* number of SDK calls made (handleWebhook and the helpers)

gatewayVars == <<customers, subs, drawn, reqs, started, issued>>
sdkVars == <<sdk, call, deliveries>>
vars == <<customers, subs, drawn, reqs, started, issued, sdk, call, deliveries>>

\* ------------------------------------------------------- provider (remote)

\* stripe.customers.list({ limit }): the first page of the listing.
customersListWholeDirectory(limit) == customers
customersList(limit) == Take(customers, limit)

\* stripe.customers.list({ email, limit }): exact email match.
customersListByEmailUnfiltered(email, limit) == Take(customers, limit)
customersListByEmail(email, limit) ==
  Take(SelectSeq(customers, LAMBDA c : c.email = email), limit)

\* stripe.subscriptions.list({ customer, status?, limit }); status "" = no filter.
subscriptionsList(customer, status, limit) ==
  Take(SelectSeq(subs, LAMBDA s : s.customer = customer
                                  /\ (status = "" \/ s.status = status)), limit)

CustomerIds == {customers[i].id : i \in 1..Len(customers)}
CustomerById(id) == customers[CHOOSE i \in 1..Len(customers) : customers[i].id = id]
SubById(id) == subs[CHOOSE i \in 1..Len(subs) : subs[i].id = id]

\* ----------------------------------------------------------- request state

NoResp == [status |-> 0, success |-> "absent", valid |-> "absent", error |-> "",
           apiKey |-> Undefined, customer |-> 0, sub |-> 0]

Idle == [op |-> "none", v |-> "none", pc |-> "idle", apiKey |-> EmptyKey,
         email |-> "", plan |-> "", customerId |-> 0, customer |-> 0,
         newKey |-> Undefined, active |-> 0, item |-> 0, usageError |-> FALSE,
         calls |-> <<>>, failed |-> "",
         resp |-> NoResp]

\* res.status(code).json({ success: false, error }) of server.js / part_001.
FailSuccess(code, msg) == [NoResp EXCEPT !.status = code, !.success = "false", !.error = msg]
\* res.status(code).json({ valid: false, error }) of the routers.
FailValid(code, msg) == [NoResp EXCEPT !.status = code, !.valid = "false", !.error = msg]
\* res.status(code).json({ error }) of generate-key / customer-info.
FailBare(code, msg) == [NoResp EXCEPT !.status = code, !.error = msg]

Free(r) == reqs[r].pc \in {"idle", "done", "crashed"}

At(r, op, pc) == reqs[r].op = op /\ reqs[r].pc = pc

\* The keys a caller may present: empty, unprefixed, prefixed, and every drawn key.
InputKeys == {EmptyKey, NotARealKey, ProdKey0} \cup {generateApiKey(n) : n \in 1..drawn}

\* ------------------------------------------------ POST validate-key (4 files)

\* The format check at the top of the handler: the failure response, or NoResp
\* when the key passes.
ValidateFormatError(v, apiKey) ==
  IF v \in {"part_001", "server"}
  THEN IF apiKey = EmptyKey \/ ~startsWith(apiKey, ProdPrefix)
       THEN FailSuccess(400, "Invalid API key format")
       ELSE NoResp
  ELSE IF apiKey = EmptyKey
       THEN FailValid(400, "No API key provided")
       ELSE NoResp

\* catch (error) { res.status(500).json(...) } of the validate-key handlers.
ValidateUpstreamErrorSilent(v) ==
  IF v \in {"part_001", "server"}
  THEN [NoResp EXCEPT !.status = 200, !.success = "true"]
  ELSE [NoResp EXCEPT !.status = 200, !.valid = "true"]
ValidateUpstreamError(v) ==
  IF v \in {"part_001", "server"}
  THEN FailSuccess(500, "upstream error")
  ELSE FailValid(500, "upstream error")

ValidateNotFoundSameEverywhere(v) == FailSuccess(401, "API Key not found or expired")
ValidateNotFound(v) ==
  IF v \in {"part_001", "server"}
  THEN FailSuccess(401, "API Key not found or expired")
  ELSE FailValid(401, "Invalid API key")

ValidateInactive(v) ==
  IF v \in {"part_001", "server"}
  THEN FailSuccess(401, "No active subscription")
  ELSE FailValid(402, "Subscription expired or not found")

\* customers.data.find(c => c.metadata?.apiKey === apiKey)
findCustomerByKey(list, apiKey) == FindIndex(list, LAMBDA c : c.apiKey = apiKey)

\* The status filter the handler passes to subscriptions.list ("" = none).
ValidateStatusFilter(v) == IF v \in {"part_001", "server"} THEN "" ELSE "active"

\* subscriptions.data.find(s => s.status === 'active') in part_001 / server;
\* subscriptions.data.length > 0 (then data[0]) in the routers.
findActiveAnyStatus(v, list) == IF Len(list) > 0 THEN 1 ELSE 0
findActive(v, list) ==
  IF v \in {"part_001", "server"}
  THEN FindIndex(list, LAMBDA s : s.status = "active")
  ELSE IF Len(list) > 0 THEN 1 ELSE 0

\* items.data.find(item => item.price.recurring?.usage_type === 'metered'),
\* guarded by items.data.length > 0; only part_001 meters.
findMeteredItem(v, sub) ==
  IF v = "part_001" /\ Len(sub.items) > 0
  THEN FindIndex(sub.items, LAMBDA it : it = "metered")
  ELSE 0

ValidateSuccess(v, customer, apiKey, sub) ==
  IF v = "part_001"
  THEN [NoResp EXCEPT !.status = 200, !.success = "true", !.valid = "true",
                      !.customer = customer, !.apiKey = apiKey]
  ELSE IF v = "server"
  THEN [NoResp EXCEPT !.status = 200, !.success = "true",
                      !.customer = customer, !.apiKey = apiKey]
  ELSE [NoResp EXCEPT !.status = 200, !.valid = "true",
                      !.customer = customer, !.sub = sub]

\* What the handler does when createUsageRecord rejects: the inner try/catch
\* logs and falls through to the success response.
UsageErrorResponseRethrown(v, customer, apiKey, sub) == ValidateUpstreamError(v)
UsageErrorResponse(v, customer, apiKey, sub) == ValidateSuccess(v, customer, apiKey, sub)

\* The handler up to its first await.  STRIPE_SECRET_KEY is taken to be set,
\* so getStripe() returns the client and the 'Stripe not configured' answer
\* does not arise.
ValidateStart(r) ==
  /\ Free(r) /\ started < MaxRequests
  /\ \E v \in ValidateVariants, k \in InputKeys :
       LET q == [Idle EXCEPT !.op = "validate", !.v = v, !.apiKey = k]
           err == ValidateFormatError(v, k)
       IN reqs' = [reqs EXCEPT ![r] =
                     IF err # NoResp
                     THEN [q EXCEPT !.pc = "done", !.resp = err]
                     ELSE [q EXCEPT !.pc = "customers.list"]]
  /\ started' = started + 1
  /\ UNCHANGED <<customers, subs, drawn, issued, sdkVars>>

ValidateCustomersListedRetrying(r) ==
  /\ At(r, "validate", "customers.list")
  /\ LET q == [reqs[r] EXCEPT !.calls = Append(@, "customers.list")]
         list == customersList(CustomerPageLimit)
         i == findCustomerByKey(list, q.apiKey)
     IN \E ok \in BOOLEAN :
          reqs' = [reqs EXCEPT ![r] =
            IF ~ok THEN IF Len(reqs[r].calls) = 0
                        THEN q
                        ELSE [q EXCEPT !.pc = "done", !.failed = "customers.list",
                                       !.resp = ValidateUpstreamError(q.v)]
            ELSE IF i = 0 THEN [q EXCEPT !.pc = "done", !.resp = ValidateNotFound(q.v)]
            ELSE [q EXCEPT !.pc = "subscriptions.list", !.customer = list[i].id]]
  /\ UNCHANGED <<customers, subs, drawn, started, issued, sdkVars>>
ValidateCustomersListed(r) ==
  /\ At(r, "validate", "customers.list")
  /\ LET q == [reqs[r] EXCEPT !.calls = Append(@, "customers.list")]
         list == customersList(CustomerPageLimit)
         i == findCustomerByKey(list, q.apiKey)
     IN \E ok \in BOOLEAN :
          reqs' = [reqs EXCEPT ![r] =
            IF ~ok THEN [q EXCEPT !.pc = "done", !.failed = "customers.list",
                                  !.resp = ValidateUpstreamError(q.v)]
            ELSE IF i = 0 THEN [q EXCEPT !.pc = "done", !.resp = ValidateNotFound(q.v)]
            ELSE [q EXCEPT !.pc = "subscriptions.list", !.customer = list[i].id]]
  /\ UNCHANGED <<customers, subs, drawn, started, issued, sdkVars>>

ValidateSubscriptionsListed(r) ==
  /\ At(r, "validate", "subscriptions.list")
  /\ LET q == [reqs[r] EXCEPT !.calls = Append(@, "subscriptions.list")]
         list == subscriptionsList(q.customer, ValidateStatusFilter(q.v),
                                   SubscriptionPageLimit)
         i == findActive(q.v, list)
         m == IF i = 0 THEN 0 ELSE findMeteredItem(q.v, list[i])
     IN \E ok \in BOOLEAN :
          reqs' = [reqs EXCEPT ![r] =
            IF ~ok THEN [q EXCEPT !.pc = "done", !.failed = "subscriptions.list",
                                  !.resp = ValidateUpstreamError(q.v)]
            ELSE IF i = 0 THEN [q EXCEPT !.pc = "done", !.resp = ValidateInactive(q.v)]
            ELSE IF m # 0
            THEN [q EXCEPT !.pc = "createUsageRecord", !.active = list[i].id, !.item = m]
            ELSE [q EXCEPT !.pc = "done", !.active = list[i].id,
                           !.resp = ValidateSuccess(q.v, q.customer, q.apiKey, list[i].id)]]
  /\ UNCHANGED <<customers, subs, drawn, started, issued, sdkVars>>

\* The provider's effect of createUsageRecord(item, { quantity: 1, action:
\* 'increment' }) on the subscription that owns the item: usage grows by one.
createUsageRecordSet(id) ==
  [i \in 1..Len(subs) |->
     IF subs[i].id = id THEN [subs[i] EXCEPT !.usage = 1] ELSE subs[i]]
createUsageRecord(id) ==
  [i \in 1..Len(subs) |->
     IF subs[i].id = id THEN [subs[i] EXCEPT !.usage = @ + 1] ELSE subs[i]]

\* subscriptionItems.createUsageRecord(meteredItem.id, { quantity: 1, action: 'increment' })
ValidateUsageReported(r) ==
  /\ At(r, "validate", "createUsageRecord")
  /\ LET q == [reqs[r] EXCEPT !.calls = Append(@, "createUsageRecord")]
     IN \E ok \in BOOLEAN :
          /\ subs' = IF ok THEN createUsageRecord(q.active) ELSE subs
          /\ reqs' = [reqs EXCEPT ![r] =
               [q EXCEPT !.pc = "done", !.usageError = ~ok,
                         !.resp = IF ok
                                  THEN ValidateSuccess(q.v, q.customer, q.apiKey, q.active)
                                  ELSE UsageErrorResponse(q.v, q.customer, q.apiKey, q.active)]]
  /\ UNCHANGED <<customers, drawn, started, issued, sdkVars>>

\* ------------------------------------------ POST create-subscription (3 files)

\* !email || !name || !paymentMethodId || !plan  (plan stands for the four fields)
MissingFields(email, plan) == email = "" \/ plan = ""

\* The plans for which the handler finds price ids.
PlanKnown(v, plan) ==
  IF v = "part_001" THEN plan = "pay_as_you_go"
  ELSE IF v = "server" THEN plan \in {"starter", "pro", "enterprise", "pay_as_you_go"}
  ELSE plan \in {"starter", "pro", "enterprise"}

\* part_001 and server.js look the plan up before the first remote call;
\* api-subscriptions.js does it after the metadata update (its "Step 4").
PlanCheckedFirst(v) == v \in {"part_001", "server"}

\* The usage types of the prices the subscription is created with: base + metered
\* in part_001, the single plan price elsewhere (PRICE_ID_PAY_AS_YOU_GO is the
\* metered price of STRIPE_SETUP.md).
subscriptionItems(v, plan) ==
  IF v = "part_001" THEN <<"licensed", "metered">>
  ELSE IF v = "server" /\ plan = "pay_as_you_go" THEN <<"metered">>
  ELSE <<"licensed">>

\* The statuses subscriptions.create may return without throwing.
CreatedStatuses == {"active", "trialing"}

\* The remote call the handler issues once it holds the customer: the metadata
\* update (the subscription is created only after it returned).
CreateAfterCustomerSwapped(v) == "subscriptions.create"
CreateAfterCustomer(v) == "customers.update"

\* if (subscription.status !== 'active') return 400: part_001 and server.js only.
ChecksCreatedStatus(v) == v \in {"part_001", "server"}

CreateSuccess(customer, sub, apiKey) ==
  [NoResp EXCEPT !.status = 200, !.success = "true", !.apiKey = apiKey,
                 !.customer = customer, !.sub = sub]

CreateStart(r) ==
  /\ Free(r) /\ started < MaxRequests
  /\ \E v \in CreateVariants, e \in Emails, p \in Plans :
       LET q == [Idle EXCEPT !.op = "create", !.v = v, !.email = e, !.plan = p]
       IN reqs' = [reqs EXCEPT ![r] =
            IF MissingFields(e, p)
            THEN [q EXCEPT !.pc = "done", !.resp = FailSuccess(400, "Missing required fields")]
            ELSE IF PlanCheckedFirst(v) /\ ~PlanKnown(v, p)
            THEN [q EXCEPT !.pc = "done", !.resp = FailSuccess(400, "Invalid plan selected")]
            ELSE [q EXCEPT !.pc = "customers.list"]]
  /\ started' = started + 1
  /\ UNCHANGED <<customers, subs, drawn, issued, sdkVars>>

\* const existingCustomers = await customers.list({ email, limit: 1 })
CreateCustomersListed(r) ==
  /\ At(r, "create", "customers.list")
  /\ LET q == [reqs[r] EXCEPT !.calls = Append(@, "customers.list")]
         list == customersListByEmail(q.email, EmailPageLimit)
     IN \E ok \in BOOLEAN :
          IF ~ok
          THEN /\ reqs' = [reqs EXCEPT ![r] =
                    [q EXCEPT !.pc = "done", !.failed = "customers.list",
                              !.resp = FailSuccess(500, "upstream error")]]
               /\ drawn' = drawn
          ELSE IF Len(list) > 0
          THEN /\ drawn < Len(RandomTails)
               /\ drawn' = drawn + 1
               /\ reqs' = [reqs EXCEPT ![r] =
                    [q EXCEPT !.pc = CreateAfterCustomer(q.v), !.customer = list[1].id,
                              !.newKey = generateApiKey(drawn + 1)]]
          ELSE /\ reqs' = [reqs EXCEPT ![r] = [q EXCEPT !.pc = "customers.create"]]
               /\ drawn' = drawn
  /\ UNCHANGED <<customers, subs, started, issued, sdkVars>>

\* customer = await customers.create({ email, name, payment_method, ... })
CreateCustomerCreated(r) ==
  /\ At(r, "create", "customers.create")
  /\ LET q == [reqs[r] EXCEPT !.calls = Append(@, "customers.create")]
         id == Len(customers) + 1
     IN \E ok \in BOOLEAN :
          IF ~ok
          THEN /\ reqs' = [reqs EXCEPT ![r] =
                    [q EXCEPT !.pc = "done", !.failed = "customers.create",
                              !.resp = FailSuccess(500, "upstream error")]]
               /\ UNCHANGED <<customers, drawn>>
          ELSE /\ drawn < Len(RandomTails)
               /\ drawn' = drawn + 1
               /\ customers' = <<[id |-> id, email |-> q.email, apiKey |-> Undefined]>>
                               \o customers
               /\ reqs' = [reqs EXCEPT ![r] =
                    [q EXCEPT !.pc = CreateAfterCustomer(q.v), !.customer = id,
                              !.newKey = generateApiKey(drawn + 1)]]
  /\ UNCHANGED <<subs, started, issued, sdkVars>>

\* await customers.update(customer.id, { metadata: { apiKey, ... } })
CreateMetadataUpdatedIgnoringFailure(r) ==
  /\ At(r, "create", "customers.update")
  /\ LET q == [reqs[r] EXCEPT !.calls = Append(@, "customers.update")]
     IN \E ok \in BOOLEAN :
          /\ customers' = IF ok
                          THEN [i \in 1..Len(customers) |->
                                  IF customers[i].id = q.customer
                                  THEN [customers[i] EXCEPT !.apiKey = q.newKey]
                                  ELSE customers[i]]
                          ELSE customers
          /\ reqs' = [reqs EXCEPT ![r] =
               [q EXCEPT !.pc = "subscriptions.create",
                         !.failed = IF ok THEN "" ELSE "customers.update"]]
  /\ UNCHANGED <<subs, drawn, started, issued, sdkVars>>
CreateMetadataUpdated(r) ==
  /\ At(r, "create", "customers.update")
  /\ LET q == [reqs[r] EXCEPT !.calls = Append(@, "customers.update")]
     IN \E ok \in BOOLEAN :
          IF ~ok
          THEN /\ reqs' = [reqs EXCEPT ![r] =
                    [q EXCEPT !.pc = "done", !.failed = "customers.update",
                              !.resp = FailSuccess(500, "upstream error")]]
               /\ UNCHANGED customers
          ELSE /\ customers' = [i \in 1..Len(customers) |->
                                  IF customers[i].id = q.customer
                                  THEN [customers[i] EXCEPT !.apiKey = q.newKey]
                                  ELSE customers[i]]
               /\ reqs' = [reqs EXCEPT ![r] =
                    IF ~PlanCheckedFirst(q.v) /\ ~PlanKnown(q.v, q.plan)
                    THEN [q EXCEPT !.pc = "done",
                                   !.resp = FailSuccess(400, "Invalid plan selected")]
                    ELSE [q EXCEPT !.pc = "subscriptions.create"]]
  /\ UNCHANGED <<subs, drawn, started, issued, sdkVars>>

\* const subscription = await subscriptions.create({ customer, items,
\*   payment_behavior: 'error_if_incomplete', ... }), then the response.
CreateSubscriptionCreatedRollingBack(r) ==
  /\ At(r, "create", "subscriptions.create")
  /\ LET q == [reqs[r] EXCEPT !.calls = Append(@, "subscriptions.create")]
         id == Len(subs) + 1
         cleared == [i \in 1..Len(customers) |->
                       IF customers[i].id = q.customer
                       THEN [customers[i] EXCEPT !.apiKey = Undefined]
                       ELSE customers[i]]
     IN \/ /\ reqs' = [reqs EXCEPT ![r] =
                [q EXCEPT !.pc = "done", !.failed = "subscriptions.create",
                          !.resp = FailSuccess(500, "upstream error")]]
           /\ customers' = cleared
           /\ UNCHANGED <<subs, issued>>
        \/ \E st \in CreatedStatuses :
             /\ subs' = <<[id |-> id, customer |-> q.customer, status |-> st,
                           items |-> subscriptionItems(q.v, q.plan), prov |-> TRUE,
                           usage |-> 0]>> \o subs
             /\ IF ChecksCreatedStatus(q.v) /\ st # "active"
                THEN /\ reqs' = [reqs EXCEPT ![r] =
                          [q EXCEPT !.pc = "done", !.active = id,
                                    !.resp = FailSuccess(400, "Subscription could not be activated")]]
                     /\ customers' = cleared
                     /\ UNCHANGED issued
                ELSE /\ reqs' = [reqs EXCEPT ![r] =
                          [q EXCEPT !.pc = "done", !.active = id,
                                    !.resp = CreateSuccess(q.customer, id, q.newKey)]]
                     /\ customers' = customers
                     /\ issued' = issued \cup {<<q.newKey, q.customer>>}
  /\ UNCHANGED <<drawn, started, sdkVars>>
CreateSubscriptionCreated(r) ==
  /\ At(r, "create", "subscriptions.create")
  /\ LET q == [reqs[r] EXCEPT !.calls = Append(@, "subscriptions.create")]
         id == Len(subs) + 1
     IN \/ /\ reqs' = [reqs EXCEPT ![r] =
                [q EXCEPT !.pc = "done", !.failed = "subscriptions.create",
                              !.resp = FailSuccess(500, "upstream error")]]
           /\ UNCHANGED <<subs, issued>>
        \/ \E st \in CreatedStatuses :
             /\ subs' = <<[id |-> id, customer |-> q.customer, status |-> st,
                           items |-> subscriptionItems(q.v, q.plan), prov |-> TRUE,
                           usage |-> 0]>> \o subs
             /\ IF ChecksCreatedStatus(q.v) /\ st # "active"
                THEN /\ reqs' = [reqs EXCEPT ![r] =
                          [q EXCEPT !.pc = "done", !.active = id,
                                    !.resp = FailSuccess(400, "Subscription could not be activated")]]
                     /\ UNCHANGED issued
                ELSE /\ reqs' = [reqs EXCEPT ![r] =
                          [q EXCEPT !.pc = "done", !.active = id,
                                    !.resp = CreateSuccess(q.customer, id, q.newKey)]]
                     /\ issued' = issued \cup {<<q.newKey, q.customer>>}
  /\ UNCHANGED <<customers, drawn, started, sdkVars>>

\* ------------------------------------------- POST generate-key (api-validate.js)

GenerateKeyStart(r) ==
  /\ Free(r) /\ started < MaxRequests
  /\ \E cid \in 0..(Len(customers) + 1) :
       LET q == [Idle EXCEPT !.op = "genkey", !.v = "api_validate", !.customerId = cid]
       IN IF cid = 0
          THEN /\ reqs' = [reqs EXCEPT ![r] =
                    [q EXCEPT !.pc = "done", !.resp = FailBare(400, "No customer ID provided")]]
               /\ drawn' = drawn
          ELSE /\ drawn < Len(RandomTails)
               /\ drawn' = drawn + 1
               /\ reqs' = [reqs EXCEPT ![r] =
                    [q EXCEPT !.pc = "customers.update", !.customer = cid,
                              !.newKey = generateApiKey(drawn + 1)]]
  /\ started' = started + 1
  /\ UNCHANGED <<customers, subs, issued, sdkVars>>

\* await customers.update(customerId, { metadata: { apiKey, createdAt } })
\* rejects for an id the provider does not know.
GenerateKeyMetadataUpdated(r) ==
  /\ At(r, "genkey", "customers.update")
  /\ LET q == [reqs[r] EXCEPT !.calls = Append(@, "customers.update")]
     IN \E ok \in BOOLEAN :
          IF ~ok \/ q.customer \notin CustomerIds
          THEN /\ reqs' = [reqs EXCEPT ![r] =
                    [q EXCEPT !.pc = "done", !.failed = "customers.update",
                              !.resp = FailSuccess(500, "upstream error")]]
               /\ UNCHANGED <<customers, issued>>
          ELSE /\ customers' = [i \in 1..Len(customers) |->
                                  IF customers[i].id = q.customer
                                  THEN [customers[i] EXCEPT !.apiKey = q.newKey]
                                  ELSE customers[i]]
               /\ reqs' = [reqs EXCEPT ![r] =
                    [q EXCEPT !.pc = "done",
                              !.resp = [NoResp EXCEPT !.status = 200, !.success = "true",
                                                      !.apiKey = q.newKey]]]
               /\ issued' = issued \cup {<<q.newKey, q.customer>>}
  /\ UNCHANGED <<subs, drawn, started, sdkVars>>

\* --------------------------------------------- POST customer-info (2 routers)

InfoStart(r) ==
  /\ Free(r) /\ started < MaxRequests
  /\ \E v \in InfoVariants, k \in InputKeys :
       LET q == [Idle EXCEPT !.op = "info", !.v = v, !.apiKey = k]
       IN reqs' = [reqs EXCEPT ![r] =
            IF k = EmptyKey
            THEN [q EXCEPT !.pc = "done", !.resp = FailBare(400, "No API key provided")]
            ELSE [q EXCEPT !.pc = "customers.list"]]
  /\ started' = started + 1
  /\ UNCHANGED <<customers, subs, drawn, issued, sdkVars>>

InfoCustomersListed(r) ==
  /\ At(r, "info", "customers.list")
  /\ LET q == [reqs[r] EXCEPT !.calls = Append(@, "customers.list")]
         list == customersList(CustomerPageLimit)
         i == findCustomerByKey(list, q.apiKey)
     IN \E ok \in BOOLEAN :
          reqs' = [reqs EXCEPT ![r] =
            IF ~ok THEN [q EXCEPT !.pc = "done", !.failed = "customers.list",
                                  !.resp = FailBare(500, "upstream error")]
            ELSE IF i = 0 THEN [q EXCEPT !.pc = "done", !.resp = FailBare(401, "Invalid API key")]
            ELSE [q EXCEPT !.pc = "subscriptions.list", !.customer = list[i].id]]
  /\ UNCHANGED <<customers, subs, drawn, started, issued, sdkVars>>

\* subscriptions.list({ customer, limit: 1 }); subscription = data[0] (may be absent)
InfoSubscriptionsListedMetering(r) ==
  /\ At(r, "info", "subscriptions.list")
  /\ LET q == [reqs[r] EXCEPT !.calls = Append(@, "subscriptions.list")]
         list == subscriptionsList(q.customer, "", SubscriptionPageLimit)
         sid == IF Len(list) > 0 THEN list[1].id ELSE 0
     IN /\ reqs' = [reqs EXCEPT ![r] =
              [q EXCEPT !.pc = "done",
                        !.resp = [NoResp EXCEPT !.status = 200, !.customer = q.customer,
                                                !.apiKey = CustomerById(q.customer).apiKey,
                                                !.sub = sid]]]
        /\ subs' = createUsageRecord(sid)
  /\ UNCHANGED <<customers, drawn, started, issued, sdkVars>>
InfoSubscriptionsListed(r) ==
  /\ At(r, "info", "subscriptions.list")
  /\ LET q == [reqs[r] EXCEPT !.calls = Append(@, "subscriptions.list")]
         list == subscriptionsList(q.customer, "", SubscriptionPageLimit)
         sid == IF Len(list) > 0 THEN list[1].id ELSE 0
     IN \E ok \in BOOLEAN :
          reqs' = [reqs EXCEPT ![r] =
            IF ~ok THEN [q EXCEPT !.pc = "done", !.failed = "subscriptions.list",
                                  !.resp = FailBare(500, "upstream error")]
            ELSE [q EXCEPT !.pc = "done",
                           !.resp = [NoResp EXCEPT !.status = 200, !.customer = q.customer,
                                                   !.apiKey = CustomerById(q.customer).apiKey,
                                                   !.sub = sid]]]
  /\ UNCHANGED <<customers, subs, drawn, started, issued, sdkVars>>

\* The server process dies while a request is suspended at an await: the
\* request is abandoned where it stands, the provider keeps what was written.
Crash(r) ==
  /\ ~Free(r)
  /\ reqs' = [reqs EXCEPT ![r] = [Idle EXCEPT !.pc = "crashed"]]
  /\ UNCHANGED <<customers, subs, drawn, started, issued, sdkVars>>

\* ------------------------------------------------- SDK (stripekit.js) webhooks

MappedTypes == {"payment_intent.succeeded", "payment_intent.payment_failed",
                "customer.subscription.created", "customer.subscription.deleted",
                "charge.refunded"}
EventTypes == MappedTypes \cup {"invoice.paid"}
Handlers == {"h1", "h2"}
Signatures == {"valid", "bad_signature", "expired", "malformed"}
Amounts == {2999, 5}     \* data.amount, in minor units
EventIds == {"evt_1", "evt_2"}

NoResult == [success |-> "none", eventType |-> "", error |-> ""]
NoData == [type |-> "", shape |-> "none", whole |-> 0, hundredths |-> 0, raw |-> 0]

\* `repeat` records that a handler already ran for an earlier delivery of the
\* same event id; `regs` is the number of on* calls made before the call began.
NoCall == [pc |-> "idle", lib |-> "", op |-> "", provider |-> 0,
           id |-> "", repeat |-> FALSE, regs |-> 0,
           type |-> "", sig |-> "", amount |-> 0, handler |-> "none",
           data |-> NoData, invoked |-> 0, fetches |-> 0, raised |-> "none",
           result |-> NoResult, thrown |-> FALSE, verified |-> FALSE]

\* stripe.webhooks.constructEvent(rawBody, signature, webhookSecret): the event,
\* or a StripeSignatureVerificationError for a signature that does not verify.
constructEventThrows(sig) == sig # "valid"

\* default: return { type: event.type, data }; `raw` is the untouched payload.
PassThroughWithoutType(type, amount) ==
  [type |-> "", shape |-> "PassThrough", whole |-> 0, hundredths |-> 0, raw |-> amount]
PassThrough(type, amount) ==
  [type |-> type, shape |-> "PassThrough", whole |-> 0, hundredths |-> 0, raw |-> amount]

\* _transformWebhookData(event); x / 100 is kept as whole units and hundredths.
transformWebhookDataUndivided(type, amount) ==
  [type |-> type,
   shape |-> IF type \in {"payment_intent.succeeded", "payment_intent.payment_failed"}
             THEN "PaymentOutcome"
             ELSE IF type \in {"customer.subscription.created",
                               "customer.subscription.deleted"}
             THEN "SubscriptionLifecycle"
             ELSE IF type = "charge.refunded" THEN "ChargeRefund" ELSE "PassThrough",
   whole |-> IF type \in {"payment_intent.succeeded", "payment_intent.payment_failed",
                          "charge.refunded"} THEN amount ELSE 0,
   hundredths |-> 0,
   raw |-> IF type \in MappedTypes THEN 0 ELSE amount]
transformWebhookData(type, amount) ==
  IF type \in {"payment_intent.succeeded", "payment_intent.payment_failed"}
  THEN [type |-> type, shape |-> "PaymentOutcome",
        whole |-> amount \div 100, hundredths |-> amount % 100, raw |-> 0]
  ELSE IF type \in {"customer.subscription.created", "customer.subscription.deleted"}
  THEN [type |-> type, shape |-> "SubscriptionLifecycle", whole |-> 0, hundredths |-> 0,
        raw |-> 0]
  ELSE IF type = "charge.refunded"
  THEN [type |-> type, shape |-> "ChargeRefund",
        whole |-> amount \div 100, hundredths |-> amount % 100, raw |-> 0]
  ELSE PassThrough(type, amount)

\* this.webhookHandlers[event.type]
lookupHandlerMissingLatest(type) ==
  LET earlier == {i \in 1..(Len(sdk.log) - 1) : sdk.log[i].type = type}
  IN IF earlier = {} THEN "none"
     ELSE sdk.log[CHOOSE i \in earlier : \A j \in earlier : j <= i].handler
lookupHandler(type) ==
  IF type \in DOMAIN sdk.webhookHandlers THEN sdk.webhookHandlers[type] ELSE "none"

\* catch (error) { return { success: false, error: error.message } }:
\* error.message of a thrown null / undefined is itself a TypeError, which
\* leaves the async function as a rejection.
CaughtRethrown(c, error) == [c EXCEPT !.pc = "done", !.thrown = TRUE]
Caught(c, error) ==
  IF error = "null"
  THEN [c EXCEPT !.pc = "done", !.thrown = TRUE]
  ELSE [c EXCEPT !.pc = "done",
                 !.result = [success |-> "false", eventType |-> "", error |-> error]]

\* return { success: true, eventType: event.type }
SuccessResultWithoutType(c) == [success |-> "true", eventType |-> "", error |-> ""]
SuccessResult(c) == [success |-> "true", eventType |-> c.type, error |-> ""]

\* const transformedData = this._transformWebhookData(event);
\* await handler(transformedData, event)
InvokeHandlerNotAwaited(e, h) ==
  [e EXCEPT !.pc = "done", !.handler = h, !.invoked = @ + 1,
            !.data = transformWebhookData(e.type, e.amount),
            !.result = SuccessResult(e)]
InvokeHandlerOncePerEvent(e, h) ==
  IF e.repeat
  THEN [e EXCEPT !.pc = "done", !.result = SuccessResult(e)]
  ELSE [e EXCEPT !.pc = "handler", !.handler = h, !.invoked = @ + 1,
                 !.data = transformWebhookData(e.type, e.amount)]
InvokeHandler(e, h) ==
  [e EXCEPT !.pc = "handler", !.handler = h, !.invoked = @ + 1,
            !.data = transformWebhookData(e.type, e.amount)]

\* handleWebhook after `await this._checkAuthorization()` returned: verify,
\* look the handler up, transform and call it, or return success at once.
\* `verified` records that constructEvent returned the event.
Dispatch(c) ==
  IF constructEventThrows(c.sig)
  THEN Caught(c, "StripeSignatureVerificationError")
  ELSE LET h == lookupHandler(c.type)
           e == [c EXCEPT !.verified = TRUE]
       IN IF h # "none"
          THEN InvokeHandler(e, h)
          ELSE [e EXCEPT !.pc = "done", !.result = SuccessResult(c)]

\* The ids of the events for which a handler was invoked (history; the SDK
\* itself keeps no such record).
Handled(c, d) == IF d.invoked > c.invoked THEN sdk.handled \cup {c.id} ELSE sdk.handled

\* What `await fetch(validationEndpoint)` and the two checks after it see of an
\* endpoint's response: response.ok (a 2xx status) and a truthy data.valid.
fetchAnswer(resp) ==
  IF resp.status < 200 \/ resp.status > 299 THEN "not_ok"
  ELSE IF resp.valid = "true" THEN "ok_valid"
  ELSE "ok_without_valid"

\* _validateKeyWithBackend reaches `this.validated = true; return true`.
BackendValidates(answer) == answer = "ok_valid"

\* _checkAuthorization: if (!this.apiKey) return  (development mode)
SkipsValidationNever(apiKey) == FALSE
SkipsValidation(apiKey) == apiKey = EmptyKey

\* onPaymentSucceeded / onPaymentFailed / onSubscriptionCreated /
\* onSubscriptionEnded / onChargeRefunded: this.webhookHandlers[type] = callback
OnEventAnyType ==
  /\ \E t \in EventTypes, h \in Handlers :
       /\ lookupHandler(t) # h
       /\ sdk.registrations < MaxRegistrations
       /\ sdk' = [sdk EXCEPT !.webhookHandlers =
                               [x \in DOMAIN @ \cup {t} |-> IF x = t THEN h ELSE @[x]],
                             !.registrations = @ + 1,
                             !.log = Append(@, [type |-> t, handler |-> h])]
  /\ UNCHANGED <<call, deliveries, gatewayVars>>
OnEventKeepsFirst ==
  /\ \E t \in MappedTypes, h \in Handlers :
       /\ sdk.webhookHandlers[t] # h
       /\ sdk.registrations < MaxRegistrations
       /\ sdk' = [sdk EXCEPT !.webhookHandlers[t] = IF @ = "none" THEN h ELSE @,
                             !.registrations = @ + 1,
                             !.log = Append(@, [type |-> t, handler |-> h])]
  /\ UNCHANGED <<call, deliveries, gatewayVars>>
OnEvent ==
  /\ \E t \in MappedTypes, h \in Handlers :
       /\ sdk.webhookHandlers[t] # h
       /\ sdk.registrations < MaxRegistrations
       /\ sdk' = [sdk EXCEPT !.webhookHandlers[t] = h, !.registrations = @ + 1,
                             !.log = Append(@, [type |-> t, handler |-> h])]
  /\ UNCHANGED <<call, deliveries, gatewayVars>>

\* handleWebhook up to `await this._checkAuthorization()`.  Without an apiKey
\* _checkAuthorization returns at once; with one, _validateKeyWithBackend checks
\* the format and then awaits fetch(validationEndpoint).
HandleWebhookStart ==
  /\ call.pc \in {"idle", "done"} /\ deliveries < MaxDeliveries
  /\ deliveries' = deliveries + 1
  /\ \E t \in EventTypes, s \in Signatures, a \in Amounts, i \in EventIds :
       LET c == [NoCall EXCEPT !.lib = "stripekit", !.op = "handleWebhook",
                               !.type = t, !.sig = s, !.amount = a, !.id = i,
                               !.repeat = (i \in sdk.handled),
                               !.regs = Len(sdk.log)]
       IN IF SkipsValidation(sdk.apiKey)
          THEN call' = [c EXCEPT !.pc = "resume"] /\ sdk' = sdk
          ELSE IF ~startsWith(sdk.apiKey, ProdPrefix)
          THEN /\ call' = Caught(c, "API Key Validation Failed")
               /\ sdk' = [sdk EXCEPT !.validated = FALSE]
          ELSE call' = [c EXCEPT !.pc = "fetch"] /\ sdk' = sdk
  /\ UNCHANGED gatewayVars

\* Development mode: the continuation after the await.
HandleWebhookResume ==
  /\ call.pc = "resume"
  /\ call' = Dispatch(call)
  /\ sdk' = [sdk EXCEPT !.handled = Handled(call, Dispatch(call))]
  /\ UNCHANGED <<deliveries, gatewayVars>>

\* Licensed mode: fetch settled.  The validation succeeds only for an ok
\* response whose body has a truthy `valid`.
HandleWebhookValidated ==
  /\ call.pc = "fetch"
  /\ \E answer \in {"network_error", "not_ok", "ok_without_valid", "ok_valid"} :
       LET c == [call EXCEPT !.fetches = @ + 1]
       IN IF BackendValidates(answer)
          THEN /\ call' = Dispatch(c)
               /\ sdk' = [sdk EXCEPT !.validated = TRUE,
                                     !.handled = Handled(c, Dispatch(c))]
          ELSE /\ call' = Caught(c, "API Key Validation Failed")
               /\ sdk' = [sdk EXCEPT !.validated = FALSE]
  /\ UNCHANGED <<deliveries, gatewayVars>>

\* `await handler(transformedData, event)` settles: the handler returned, threw
\* an Error, or threw / rejected with null or undefined.
HandlerSettled ==
  /\ call.pc = "handler"
  /\ \E outcome \in {"returns", "Error", "null"} :
       LET c == [call EXCEPT !.raised = outcome]
       IN call' = IF outcome = "returns"
                  THEN [c EXCEPT !.pc = "done", !.result = SuccessResult(c)]
                  ELSE Caught(c, outcome)
  /\ UNCHANGED <<sdk, deliveries, gatewayVars>>

\* --------------------------------- SDK helpers (stripekit.js and part_000)

\* The two SDK classes: the licensed one and the one without licensing.
Libs == {"stripekit", "part_000"}

HelperOps(lib) ==
  IF lib = "stripekit"
  THEN {"createPayment", "getPayment", "createCustomer", "getCustomer",
        "updateCustomer", "createSubscription", "getSubscription",
        "cancelSubscription"}
  ELSE {"createPayment", "getPayment", "createCustomer", "getCustomerByEmail",
        "createSubscriptionCheckout", "cancelSubscription"}

\* The helpers whose try block starts with `await this._checkAuthorization()`.
ChecksAuthorization(lib, op) == lib = "stripekit" /\ op # "getPayment"

\* The `success` member of the object a helper returns after the provider
\* answered, and of the object its catch block returns.
SuccessFlag(lib, op) ==
  IF \/ lib = "stripekit" /\ op \in {"getPayment", "getCustomer", "getSubscription"}
     \/ lib = "part_000" /\ op = "getPayment"
  THEN "absent" ELSE "true"

FailureFlag(lib, op) ==
  IF lib = "stripekit" /\ op \in {"getPayment", "getCustomer", "getSubscription"}
  THEN "absent" ELSE "false"

\* catch (error) of a helper; every error it can see is an Error object.
HelperCaught(c, error) ==
  [c EXCEPT !.pc = "done",
            !.result = [success |-> FailureFlag(c.lib, c.op), eventType |-> "",
                        error |-> error]]

\* A helper up to its first await: _checkAuthorization's format check and
\* fetch, or the provider call itself.
HelperStart ==
  /\ call.pc \in {"idle", "done"} /\ deliveries < MaxDeliveries
  /\ deliveries' = deliveries + 1
  /\ \E lib \in Libs : \E op \in HelperOps(lib) :
       LET c == [NoCall EXCEPT !.lib = lib, !.op = op]
       IN IF ChecksAuthorization(lib, op) /\ ~SkipsValidation(sdk.apiKey)
          THEN IF ~startsWith(sdk.apiKey, ProdPrefix)
               THEN /\ call' = HelperCaught(c, "API Key Validation Failed")
                    /\ sdk' = [sdk EXCEPT !.validated = FALSE]
               ELSE call' = [c EXCEPT !.pc = "authorizing"] /\ sdk' = sdk
          ELSE call' = [c EXCEPT !.pc = "provider", !.provider = @ + 1] /\ sdk' = sdk
  /\ UNCHANGED gatewayVars

\* The fetch of _validateKeyWithBackend settled.
HelperValidated ==
  /\ call.pc = "authorizing"
  /\ \E answer \in {"network_error", "not_ok", "ok_without_valid", "ok_valid"} :
       LET c == [call EXCEPT !.fetches = @ + 1]
       IN IF BackendValidates(answer)
          THEN /\ call' = [c EXCEPT !.pc = "provider", !.provider = @ + 1]
               /\ sdk' = [sdk EXCEPT !.validated = TRUE]
          ELSE /\ call' = HelperCaught(c, "API Key Validation Failed")
               /\ sdk' = [sdk EXCEPT !.validated = FALSE]
  /\ UNCHANGED <<deliveries, gatewayVars>>

\* The provider call settled: the helper returns its object.
\* getCustomerByEmail also fails on an empty listing.
HelperProviderSettled ==
  /\ call.pc = "provider"
  /\ \E outcome \in {"ok", "StripeError", "empty"} :
       /\ outcome = "empty" => call.op = "getCustomerByEmail"
       /\ call' = IF outcome = "ok"
                  THEN [call EXCEPT !.pc = "done",
                                    !.result = [success |-> SuccessFlag(call.lib, call.op),
                                                eventType |-> "", error |-> ""]]
                  ELSE IF outcome = "empty"
                  THEN [call EXCEPT !.pc = "done",
                                    !.result = [success |-> "false", eventType |-> "",
                                                error |-> "Customer not found"]]
                  ELSE HelperCaught(call, outcome)
  /\ UNCHANGED <<sdk, deliveries, gatewayVars>>

\* part_000: new StripeKit(stripeSecretKey) throws without a secret key.
FreeConstruct ==
  /\ call.pc \in {"idle", "done"} /\ deliveries < MaxDeliveries
  /\ deliveries' = deliveries + 1
  /\ \E secretKeyGiven \in BOOLEAN :
       call' = [NoCall EXCEPT !.lib = "part_000", !.op = "constructor", !.pc = "done",
                              !.thrown = ~secretKeyGiven]
  /\ UNCHANGED <<sdk, gatewayVars>>

\* part_000: constructEvent returns the event or throws 'Webhook Error: ...'.
FreeConstructEvent ==
  /\ call.pc \in {"idle", "done"} /\ deliveries < MaxDeliveries
  /\ deliveries' = deliveries + 1
  /\ \E t \in EventTypes, sg \in Signatures :
       LET c == [NoCall EXCEPT !.lib = "part_000", !.op = "constructEvent",
                               !.pc = "done", !.type = t, !.sig = sg]
       IN call' = IF constructEventThrows(sg)
                  THEN [c EXCEPT !.thrown = TRUE]
                  ELSE [c EXCEPT !.verified = TRUE,
                                 !.result = [success |-> "absent", eventType |-> t,
                                             error |-> ""]]
  /\ UNCHANGED <<sdk, gatewayVars>>

\* stripekit.js: _transformWebhookData(event) called on an event of any type.
TransformWebhookData ==
  /\ call.pc \in {"idle", "done"} /\ deliveries < MaxDeliveries
  /\ deliveries' = deliveries + 1
  /\ \E t \in EventTypes, a \in Amounts :
       call' = [NoCall EXCEPT !.lib = "stripekit", !.op = "_transformWebhookData",
                              !.pc = "done", !.type = t, !.amount = a,
                              !.data = transformWebhookData(t, a)]
  /\ UNCHANGED <<sdk, gatewayVars>>

\* ------------------------------------------------------------ specifications

InitSubKinds ==
  {[status |-> "active", items |-> it] :
     it \in {<<"licensed">>, <<"licensed", "metered">>}}
  \cup {[status |-> st, items |-> <<"licensed">>] : st \in Statuses \ {"active"}}

InitSubs(n) ==
  {[i \in 1..n |-> [id |-> n + 1 - i, customer |-> 1, status |-> f[i].status,
                    items |-> f[i].items, prov |-> FALSE, usage |-> 0]] :
     f \in [1..n -> InitSubKinds]}

\* `log` is the history of on* calls, oldest first.
DevSdk == [apiKey |-> EmptyKey, validated |-> TRUE, registrations |-> 0,
           webhookHandlers |-> [t \in MappedTypes |-> "none"], log |-> <<>>,
           handled |-> {}]

\* new StripeKit(stripeSecretKey, apiKey): validated is true only without apiKey.
NewSdk(apiKey) == [DevSdk EXCEPT !.apiKey = apiKey, !.validated = (apiKey = EmptyKey)]

\* The gateway over a provider that already holds one account.
Init ==
  /\ \E k \in {ProdKey0, NotARealKey} :
       customers = <<[id |-> 1, email |-> "a@x", apiKey |-> k]>>
  /\ \E n \in 0..MaxInitSubs : subs \in InitSubs(n)
  /\ drawn = 0
  /\ reqs = [r \in {1} |-> Idle]
  /\ started = 0
  /\ issued = {}
  /\ sdk = DevSdk
  /\ call = NoCall
  /\ deliveries = 0

Next ==
  \/ \E r \in DOMAIN reqs : ValidateStart(r)
  \/ \E r \in DOMAIN reqs : ValidateCustomersListed(r)
  \/ \E r \in DOMAIN reqs : ValidateSubscriptionsListed(r)
  \/ \E r \in DOMAIN reqs : ValidateUsageReported(r)
  \/ \E r \in DOMAIN reqs : CreateStart(r)
  \/ \E r \in DOMAIN reqs : CreateCustomersListed(r)
  \/ \E r \in DOMAIN reqs : CreateCustomerCreated(r)
  \/ \E r \in DOMAIN reqs : CreateMetadataUpdated(r)
  \/ \E r \in DOMAIN reqs : CreateSubscriptionCreated(r)
  \/ \E r \in DOMAIN reqs : GenerateKeyStart(r)
  \/ \E r \in DOMAIN reqs : GenerateKeyMetadataUpdated(r)
  \/ \E r \in DOMAIN reqs : InfoStart(r)
  \/ \E r \in DOMAIN reqs : InfoCustomersListed(r)
  \/ \E r \in DOMAIN reqs : InfoSubscriptionsListed(r)
  \/ \E r \in DOMAIN reqs : Crash(r)

Spec == Init /\ [][Next]_vars

\* The gateway serving two requests at a time: whenever one handler is
\* suspended at an await, the other may run.
InitConcurrent ==
  /\ customers = <<[id |-> 1, email |-> "a@x", apiKey |-> ProdKey0]>>
  /\ subs \in InitSubs(1)
  /\ drawn = 0
  /\ reqs = [r \in {1, 2} |-> Idle]
  /\ started = 0
  /\ issued = {}
  /\ sdk = DevSdk
  /\ call = NoCall
  /\ deliveries = 0

SpecConcurrent == InitConcurrent /\ [][Next]_vars

\* The gateway over a provider whose directory fills the lookup page exactly:
\* CustomerPageLimit accounts, newest first; the oldest one (id 1, last in the
\* listing) holds a key and the subscriptions, the others hold no key.
InitLargeDirectory ==
  /\ customers = [i \in 1..CustomerPageLimit |->
                    IF i = CustomerPageLimit
                    THEN [id |-> 1, email |-> "a@x", apiKey |-> ProdKey0]
                    ELSE [id |-> CustomerPageLimit + 1 - i, email |-> "c@x",
                          apiKey |-> Undefined]]
  /\ subs \in InitSubs(1)
  /\ drawn = 0
  /\ reqs = [r \in {1} |-> Idle]
  /\ started = 0
  /\ issued = {}
  /\ sdk = DevSdk
  /\ call = NoCall
  /\ deliveries = 0

SpecLargeDirectory == InitLargeDirectory /\ [][Next]_vars

\* The SDK, constructed with or without a license key.
InitSDK ==
  /\ customers = <<[id |-> 1, email |-> "a@x", apiKey |-> ProdKey0]>>
  /\ subs = <<>>
  /\ drawn = 0
  /\ reqs = [r \in {1} |-> Idle]
  /\ started = 0
  /\ issued = {}
  /\ \E k \in {EmptyKey, ProdKey0, NotARealKey} : sdk = NewSdk(k)
  /\ call = NoCall
  /\ deliveries = 0

NextSDK ==
  \/ OnEvent
  \/ HandleWebhookStart
  \/ HandleWebhookResume
  \/ HandleWebhookValidated
  \/ HandlerSettled

SpecSDK == InitSDK /\ [][NextSDK]_vars

\* Every public operation of both SDK classes.
NextSDKFull ==
  \/ OnEvent
  \/ HandleWebhookStart
  \/ HandleWebhookResume
  \/ HandleWebhookValidated
  \/ HandlerSettled
  \/ HelperStart
  \/ HelperValidated
  \/ HelperProviderSettled
  \/ FreeConstruct
  \/ FreeConstructEvent
  \/ TransformWebhookData

SpecSDKFull == InitSDK /\ [][NextSDKFull]_vars

\* ------------------------------------------------------------------- claims

Requests == DOMAIN reqs
Finished(r, op) == reqs[r].op = op /\ reqs[r].pc = "done"

\* The endpoint's "valid" answer: 200 with success / valid true.
ValidOutcome(resp) ==
  resp.status = 200 /\ (resp.success = "true" \/ resp.valid = "true")

\* { success: false, error } or { valid: false, error }
FailureOutcome(resp) ==
  resp.status # 200 /\ (resp.success = "false" \/ resp.valid = "false") /\ resp.error # ""

SubsOf(c) == {i \in 1..Len(subs) : subs[i].customer = c}
HasActive(c) == \E i \in SubsOf(c) : subs[i].status = "active"

\* C1: a handleWebhook call whose payload fails signature verification (bad
\* signature, expired timestamp, malformed header) invokes no handler, never
\* transforms the event, throws nothing, and ends with {success:false, error}.
C1_BadSignatureFails ==
  call.sig \in Signatures \ {"valid"} =>
    /\ call.invoked = 0
    /\ call.data = NoData
    /\ ~call.thrown
    /\ call.pc = "done" => (call.result.success = "false" /\ call.result.error # "")

\* C1 witness: an expired-signature delivery of a type that has a handler,
\* finished with the failure result.
C1_Witness ==
  /\ call.pc = "done" /\ call.sig = "expired"
  /\ lookupHandler(call.type) # "none"
  /\ call.result.success = "false"

\* C2 (as claimed): every successful validate-key call that found an active
\* subscription with a metered line item has submitted exactly one usage
\* increment, on every server file that serves validate-key.
C2_EveryValidationMeters ==
  \A r \in Requests :
    (/\ Finished(r, "validate") /\ ValidOutcome(reqs[r].resp)
     /\ \E it \in 1..Len(SubById(reqs[r].active).items) :
          SubById(reqs[r].active).items[it] = "metered")
    => Count(reqs[r].calls, "createUsageRecord") = 1

\* C3: a validate-key call whose key resolves to an account with no active
\* subscription is never answered valid, and when the subscription listing
\* answered it ends with the subscription-inactive outcome, whatever non-active
\* subscriptions the account holds.
C3_NoActiveNeverValid ==
  \A r \in Requests :
    (Finished(r, "validate") /\ reqs[r].customer # 0 /\ ~HasActive(reqs[r].customer))
    => /\ ~ValidOutcome(reqs[r].resp)
       /\ reqs[r].resp.status # 500 =>
            /\ reqs[r].resp.status \in {401, 402}
            /\ reqs[r].resp.error \in {"No active subscription",
                                       "Subscription expired or not found"}
            /\ FailureOutcome(reqs[r].resp)

\* C3 witness: the account holds a canceled and a past_due subscription and the
\* call ended with the inactive outcome.
C3_Witness ==
  \E r \in Requests :
    /\ Finished(r, "validate") /\ reqs[r].customer # 0
    /\ \E i, j \in SubsOf(reqs[r].customer) :
         subs[i].status = "canceled" /\ subs[j].status = "past_due"
    /\ reqs[r].resp.status \in {401, 402}
    /\ reqs[r].resp.error \in {"No active subscription", "Subscription expired or not found"}

\* C4 (as claimed): a validate-key call for a well-formed key that resolves to an
\* account holding at least one active subscription returns the valid outcome
\* (the remote calls having answered), whatever else the account holds and in
\* whatever order the provider lists it.
C4_ActiveAlwaysValid ==
  \A r \in Requests :
    (/\ Finished(r, "validate") /\ startsWith(reqs[r].apiKey, ProdPrefix)
     /\ reqs[r].customer # 0 /\ HasActive(reqs[r].customer)
     /\ reqs[r].resp.status # 500)
    => ValidOutcome(reqs[r].resp)

\* C5 (as claimed): a validate-key call with a key lacking the sk_prod_ prefix
\* ends at the format check (400) before any directory lookup, on every server
\* file that serves validate-key.
C5_UnprefixedFailsFormat ==
  \A r \in Requests :
    (reqs[r].op = "validate" /\ ~startsWith(reqs[r].apiKey, ProdPrefix))
    => /\ reqs[r].pc = "done"
       /\ reqs[r].resp.status = 400
       /\ reqs[r].calls = <<>>

\* C6: once status evaluation found an active subscription, the metering step
\* never changes the outcome: with no metered item it is skipped, a rejected
\* usage submission is swallowed, and the call ends valid.
C6_MeteringNeverFails ==
  \A r \in Requests :
    (Finished(r, "validate") /\ reqs[r].active # 0)
    => /\ ValidOutcome(reqs[r].resp)
       /\ (\A it \in 1..Len(SubById(reqs[r].active).items) :
             SubById(reqs[r].active).items[it] # "metered")
          => Count(reqs[r].calls, "createUsageRecord") = 0

\* C6 witness: the usage submission was rejected and the answer is still valid.
C6_Witness ==
  \E r \in Requests :
    /\ Finished(r, "validate") /\ reqs[r].v = "part_001"
    /\ reqs[r].usageError
    /\ ValidOutcome(reqs[r].resp)

\* C7: provisioning writes the key to the account's metadata before it creates
\* the subscription: no account holds an active subscription created by
\* provisioning while its metadata carries no license key, in every state
\* (crashed and failed requests included), and a request that issued
\* subscriptions.create issued customers.update before it.
C7_KeyBeforeSubscription ==
  /\ \A i \in 1..Len(subs) :
       (subs[i].prov /\ subs[i].status = "active")
       => CustomerById(subs[i].customer).apiKey # Undefined
  /\ \A r \in Requests :
       \A n \in 1..Len(reqs[r].calls) :
         (reqs[r].op = "create" /\ reqs[r].calls[n] = "subscriptions.create")
         => \E m \in 1..(n - 1) : reqs[r].calls[m] = "customers.update"

\* C7 witness: an account created by provisioning holds an active subscription
\* created by provisioning.
C7_Witness ==
  \E i \in 1..Len(subs) :
    /\ subs[i].prov /\ subs[i].status = "active" /\ subs[i].customer > 1
    /\ CustomerById(subs[i].customer).apiKey # Undefined

\* C8 (as claimed): a create-subscription request that does not end with an
\* active subscription answers {success:false, error} without a license key, on
\* every server file that serves create-subscription.
C8_KeyOnlyWithActive ==
  \A r \in Requests :
    (/\ Finished(r, "create")
     /\ ~(reqs[r].active # 0 /\ SubById(reqs[r].active).status = "active"))
    => /\ reqs[r].resp.success = "false"
       /\ reqs[r].resp.error # ""
       /\ reqs[r].resp.apiKey = Undefined

\* C9 (as claimed): a key written to an account's metadata and returned to a
\* caller stays, in every later state, the key stored in that account's
\* metadata, and still resolves to that account.
C9_KeyNeverRotated ==
  \A p \in issued :
    /\ CustomerById(p[2]).apiKey = p[1]
    /\ LET list == customersList(CustomerPageLimit)
           i == findCustomerByKey(list, p[1])
       IN i # 0 /\ list[i].id = p[2]

\* C10 (as claimed): when the handler raises or rejects during dispatch,
\* handleWebhook does not re-throw and returns {success:false, error}; every
\* finished call has a structured success / failure result.
C10_HandlerFailureReported ==
  call.pc = "done" =>
    /\ ~call.thrown
    /\ call.result.success \in {"true", "false"}
    /\ call.raised \in {"Error", "null"}
         => (call.result.success = "false" /\ call.result.error # "")

\* C11: handleWebhook on a verified event whose type has no registered handler
\* invokes no handler and returns { success: true, eventType } with the event's
\* own type; it never reports an error and never throws.
C11_NoHandlerIsSuccess ==
  (call.pc = "done" /\ call.verified /\ call.handler = "none")
    => /\ call.invoked = 0
       /\ call.raised = "none"
       /\ call.result = [success |-> "true", eventType |-> call.type, error |-> ""]
       /\ ~call.thrown

C11_Witness ==
  /\ call.pc = "done" /\ call.verified /\ call.handler = "none"
  /\ call.type \in MappedTypes
  /\ \E t \in MappedTypes : sdk.webhookHandlers[t] # "none"
  /\ call.result.success = "true" /\ call.result.eventType = call.type
  /\ sdk.apiKey # EmptyKey

\* The handler of the latest on* call for a type, "none" when there was none.
RECURSIVE LastRegistered(_, _)
LastRegistered(log, type) ==
  IF log = <<>> THEN "none"
  ELSE IF log[Len(log)].type = type THEN log[Len(log)].handler
  ELSE LastRegistered(SubSeq(log, 1, Len(log) - 1), type)

\* C12: the registry holds at most one handler per event type and a later
\* registration replaces the earlier one: every dispatch that invokes a handler
\* invokes, once, the handler of the latest on* call for the event's type (after
\* h1 then h2 for one type: h2, never h1, never both).
C12_LastRegistrationWins ==
  [][(call.pc # "handler" /\ call'.pc = "handler")
       => /\ call'.handler = LastRegistered(sdk.log, call'.type)
          /\ call'.handler \in Handlers
          /\ call'.invoked = 1]_vars

C12_Witness ==
  /\ call.pc = "handler" /\ call.handler = "h2" /\ call.invoked = 1
  /\ sdk.log = <<[type |-> call.type, handler |-> "h1"],
                 [type |-> call.type, handler |-> "h2"]>>

\* C13: each verified delivery whose type has a registered handler invokes that
\* handler exactly once: a delivery of an event id that was handled before
\* invokes the handler again (no de-duplication), and once the handler has
\* settled, with or without a failure, the delivery is over (no retry).
C13_OneInvocationPerDelivery ==
  [][/\ (~call.verified /\ call'.verified
           /\ LastRegistered(sdk.log, call'.type) # "none")
          => (call'.pc = "handler" /\ call'.invoked = 1)
     /\ call.pc = "handler"
          => (call' = call \/ (call'.pc = "done" /\ call'.invoked = 1))
     /\ call.pc = "done" => (call' = call \/ call'.invoked = 0)]_vars

C13_Witness ==
  /\ call.pc = "done" /\ call.verified /\ call.repeat
  /\ call.invoked = 1 /\ call.raised = "Error"
  /\ deliveries = MaxDeliveries

\* C14: for payment succeeded / failed and charge refunded events the amount of
\* the object handed to the handler is the event's minor-unit amount divided by
\* 100 (2999 gives 29.99), and a signed payment_intent.succeeded event that
\* passes authorization and whose handler, if any, returns normally makes
\* handleWebhook return { success: true, eventType: 'payment_intent.succeeded' }.
C14_AmountDividedBy100 ==
  /\ (call.verified /\ call.handler # "none"
        /\ call.type \in {"payment_intent.succeeded", "payment_intent.payment_failed",
                          "charge.refunded"})
       => /\ call.data.type = call.type
          /\ call.data.shape = IF call.type = "charge.refunded"
                               THEN "ChargeRefund" ELSE "PaymentOutcome"
          /\ call.data.whole * 100 + call.data.hundredths = call.amount
          /\ call.data.hundredths \in 0..99
          /\ call.amount = 2999 => (call.data.whole = 29 /\ call.data.hundredths = 99)
  /\ (call.pc = "done" /\ call.verified /\ call.type = "payment_intent.succeeded"
        /\ call.raised \in {"none", "returns"})
       => /\ call.result = [success |-> "true",
                            eventType |-> "payment_intent.succeeded", error |-> ""]
          /\ ~call.thrown

C14_Witness ==
  /\ call.pc = "done" /\ call.verified /\ call.type = "payment_intent.succeeded"
  /\ call.amount = 2999 /\ call.handler # "none" /\ call.raised = "returns"
  /\ call.data.whole = 29 /\ call.data.hundredths = 99
  /\ call.result.success = "true"
  /\ sdk.apiKey # EmptyKey

\* C15: an event whose type has no explicit mapping is transformed into a
\* pass-through object that keeps the type tag and carries the raw payload, and
\* handleWebhook returns success with the event's type for every verified
\* event of such a type.
C15_UnknownTypePassesThrough ==
  /\ (call.op = "_transformWebhookData" /\ call.pc = "done"
        /\ call.type \notin MappedTypes)
       => /\ call.data.shape = "PassThrough"
          /\ call.data.type = call.type
          /\ call.data.raw = call.amount
          /\ ~call.thrown
  /\ (call.op = "handleWebhook" /\ call.pc = "done" /\ call.verified
        /\ call.type \notin MappedTypes)
       => /\ call.result = [success |-> "true", eventType |-> call.type, error |-> ""]
          /\ ~call.thrown

C15_Witness ==
  /\ call.op = "_transformWebhookData" /\ call.pc = "done"
  /\ call.type = "invoice.paid" /\ call.amount = 2999
  /\ call.data = [type |-> "invoice.paid", shape |-> "PassThrough", whole |-> 0,
                  hundredths |-> 0, raw |-> 2999]

AllHelperOps == HelperOps("stripekit") \cup HelperOps("part_000")

\* C16: no exception crosses the public boundary: every public operation of
\* either SDK class, construction and webhook event construction included,
\* ends by returning a value, never by throwing or rejecting.
C16_NoExceptionCrosses ==
  call.pc = "done" => ~call.thrown

\* C17: every payment / customer / subscription helper returns the uniform
\* shape: success = true on success, success = false with an error string on
\* failure; the retrieval helpers carry the success boolean on both outcomes.
C17_UniformResultShape ==
  (call.op \in AllHelperOps /\ call.pc = "done")
    => \/ call.result.success = "true" /\ call.result.error = ""
       \/ call.result.success = "false" /\ call.result.error # ""

\* C18: every response of every HTTP endpoint (validate-key, create-subscription,
\* generate-key, customer-info), on every success and failure path, includes an
\* explicit success or valid boolean.
C18_EveryResponseHasFlag ==
  \A r \in Requests :
    reqs[r].pc = "done"
    => \/ reqs[r].resp.success \in {"true", "false"}
       \/ reqs[r].resp.valid \in {"true", "false"}

\* A finished validate-key request that presented "not_a_real_key" while no
\* account owned that key and the account listing answered.
NotARealKeyAnswered(r) ==
  /\ Finished(r, "validate")
  /\ reqs[r].apiKey = NotARealKey
  /\ findCustomerByKey(customers, NotARealKey) = 0
  /\ reqs[r].resp.status # 500

C20_ValidatedBeforeProvider ==
  sdk.apiKey # EmptyKey
  => /\ deliveries = 0 => (~sdk.validated /\ call.fetches = 0)
     /\ (call.lib = "stripekit" /\ call.op # "_transformWebhookData"
           /\ (call.provider > 0 \/ call.verified))
          => call.fetches = 1
     /\ (call.lib = "stripekit" /\ call.pc = "done"
           /\ call.result.error = "API Key Validation Failed")
          => /\ call.provider = 0 /\ ~call.verified /\ call.invoked = 0
             /\ call.result.success # "true"

\* C21: in development mode (no apiKey) no operation contacts the validation
\* endpoint, validated is true in every reachable state, and every operation
\* of stripekit.js goes straight to its provider call (handleWebhook: straight
\* to signature verification), never failing on key validation.
C21_DevelopmentModeNeverValidates ==
  sdk.apiKey = EmptyKey
  => /\ sdk.validated
     /\ call.fetches = 0
     /\ call.pc \notin {"fetch", "authorizing"}
     /\ call.result.error # "API Key Validation Failed"
     /\ (call.lib = "stripekit" /\ call.op \in HelperOps("stripekit"))
          => call.provider = 1
     /\ (call.op = "handleWebhook" /\ call.pc = "done" /\ call.sig = "valid")
          => call.verified

C21_Witness ==
  /\ sdk.apiKey = EmptyKey /\ sdk.validated
  /\ call.lib = "stripekit" /\ call.op = "getCustomer" /\ call.pc = "done"
  /\ call.provider = 1 /\ call.fetches = 0 /\ call.result.error = ""
  /\ deliveries = MaxDeliveries

\* C22: when handleWebhook's signature verification fails the call has no
\* side effect other than returning the failure: no handler runs and no remote
\* request (hence no usage increment) is made for that delivery, in
\* development mode and with a license key alike.
C22_FailedVerificationHasNoEffect ==
  (call.op = "handleWebhook" /\ call.pc = "done"
    /\ call.result.error = "StripeSignatureVerificationError")
  => /\ call.invoked = 0
     /\ call.data = NoData
     /\ call.fetches = 0

\* A finished validate-key request whose usage submission the provider accepted.
Metered(r) ==
  /\ Finished(r, "validate")
  /\ Count(reqs[r].calls, "createUsageRecord") = 1
  /\ ~reqs[r].usageError

\* C23: two validate-key calls for the same active metered key that overlap,
\* under every interleaving of their remote calls, each complete the protocol
\* and both usage increments are recorded: a request suspended at a remote call
\* can always resume whatever the other request is doing, and when these two
\* are the only requests so far and both submissions were accepted, the
\* subscription's usage has grown by two.
C23_ConcurrentIncrementsBothRecorded ==
  /\ \A r \in Requests :
       /\ At(r, "validate", "customers.list") => ENABLED ValidateCustomersListed(r)
       /\ At(r, "validate", "subscriptions.list") => ENABLED ValidateSubscriptionsListed(r)
       /\ At(r, "validate", "createUsageRecord") => ENABLED ValidateUsageReported(r)
  /\ (Metered(1) /\ Metered(2) /\ reqs[1].active = reqs[2].active /\ started = 2)
       => /\ SubById(reqs[1].active).usage = 2
          /\ ValidOutcome(reqs[1].resp) /\ ValidOutcome(reqs[2].resp)

C23_Witness ==
  /\ Metered(1) /\ Metered(2)
  /\ reqs[1].apiKey = ProdKey0 /\ reqs[2].apiKey = ProdKey0
  /\ reqs[1].active = reqs[2].active /\ started = 2
  /\ SubById(reqs[1].active).usage = 2

\* C24: a customer-info request, successful or not, never submits a usage
\* increment: no step of such a request changes any subscription, and
\* createUsageRecord is never among the remote calls it issued.
C24_CustomerInfoNeverMeters ==
  [][\A r \in Requests :
       (reqs'[r] # reqs[r] /\ reqs'[r].op = "info")
       => /\ subs' = subs
          /\ Count(reqs'[r].calls, "createUsageRecord") = 0]_vars

C24_Witness ==
  \E r \in Requests :
    /\ Finished(r, "info") /\ reqs[r].resp.status = 200
    /\ reqs[r].resp.sub # 0
    /\ SubById(reqs[r].resp.sub).status = "active"
    /\ SubById(reqs[r].resp.sub).items = <<"licensed", "metered">>
    /\ SubById(reqs[r].resp.sub).usage = 0

\* C25: a usage increment is submitted only on the success path of validation:
\* a validate-key call that ends in a failure response (format check, lookup,
\* status evaluation, failed listing) has submitted none, and a submission is
\* always preceded by both listings and by a status evaluation that found an
\* active subscription of the key's account.
C25_MeteringOnlyOnSuccessPath ==
  \A r \in Requests :
    reqs[r].op = "validate"
    => /\ (reqs[r].pc = "createUsageRecord"
            \/ Count(reqs[r].calls, "createUsageRecord") > 0)
           => /\ SubSeq(reqs[r].calls, 1, 2) = <<"customers.list", "subscriptions.list">>
              /\ Len(reqs[r].calls) <= 3
              /\ reqs[r].active # 0
              /\ SubById(reqs[r].active).status = "active"
              /\ SubById(reqs[r].active).customer = reqs[r].customer
       /\ (reqs[r].pc = "done" /\ ~ValidOutcome(reqs[r].resp))
           => Count(reqs[r].calls, "createUsageRecord") = 0

C25_Witness ==
  \E r \in Requests :
    /\ Finished(r, "validate") /\ reqs[r].v = "part_001"
    /\ reqs[r].calls = <<"customers.list", "subscriptions.list", "createUsageRecord">>
    /\ ValidOutcome(reqs[r].resp)
    /\ SubById(reqs[r].active).usage = 1
    /\ started = MaxRequests

\* C26: a failure (or provider-side timeout) of the account listing or of the
\* subscription listing during validate-key is answered with status 500 and a
\* failure body, never with a valid result: a validate-key response reports the
\* key as valid only when both listings were issued and neither failed.
C26_ListingFailureIsUpstreamError ==
  \A r \in Requests :
    reqs[r].op = "validate"
    => /\ reqs[r].failed \in {"customers.list", "subscriptions.list"}
           => /\ reqs[r].pc = "done"
              /\ reqs[r].resp.status = 500
              /\ FailureOutcome(reqs[r].resp)
              /\ reqs[r].calls[Len(reqs[r].calls)] = reqs[r].failed
       /\ (reqs[r].pc = "done" /\ ValidOutcome(reqs[r].resp))
           => /\ reqs[r].failed = ""
              /\ SubSeq(reqs[r].calls, 1, 2) = <<"customers.list", "subscriptions.list">>

C26_Witness ==
  \E r \in Requests :
    /\ Finished(r, "validate") /\ reqs[r].failed = "subscriptions.list"
    /\ reqs[r].resp.status = 500
    /\ reqs[r].customer # 0 /\ HasActive(reqs[r].customer)

\* C27: a provisioning step that fails aborts all remaining steps: the failing
\* remote call changes nothing at the provider and is the request's last call,
\* the request ends at once with a failure response, and so a failed account
\* lookup or creation is followed by no metadata write and no subscription
\* creation, and a failed metadata write by no subscription creation.
C27_FailedStepAborts ==
  [][\A r \in Requests :
       (reqs'[r].op = "create" /\ reqs'[r].failed # "")
       => /\ reqs'[r].pc = "done"
          /\ FailureOutcome(reqs'[r].resp)
          /\ reqs'[r].calls[Len(reqs'[r].calls)] = reqs'[r].failed
          /\ Count(reqs'[r].calls, reqs'[r].failed) = 1
          /\ reqs'[r].failed \in {"customers.list", "customers.create"}
               => Count(reqs'[r].calls, "customers.update") = 0
          /\ reqs'[r].failed \in {"customers.list", "customers.create", "customers.update"}
               => Count(reqs'[r].calls, "subscriptions.create") = 0
          /\ reqs[r].failed = "" => (customers' = customers /\ subs' = subs)]_vars

C27_Witness ==
  \E r \in Requests :
    /\ Finished(r, "create") /\ reqs[r].failed = "customers.update"
    /\ reqs[r].calls = <<"customers.list", "customers.create", "customers.update">>
    /\ reqs[r].resp.status = 500
    /\ SubsOf(reqs[r].customer) = {}
    /\ CustomerById(reqs[r].customer).apiKey = Undefined

\* A finished create-subscription request that failed at subscription creation
\* or because the created subscription was not active.
FailedAtSubscription(r) ==
  /\ Finished(r, "create")
  /\ \/ reqs[r].failed = "subscriptions.create"
     \/ reqs[r].resp.error = "Subscription could not be activated"

\* C28: provisioning performs no rollback: after a create-subscription request
\* that failed at subscription creation, or because the created subscription
\* was not active, the account of step 1 still exists and its metadata still
\* holds the key that the failed request generated.
C28_NoRollback ==
  \A r \in Requests :
    FailedAtSubscription(r)
    => /\ FailureOutcome(reqs[r].resp)
       /\ reqs[r].customer \in CustomerIds
       /\ CustomerById(reqs[r].customer).apiKey = reqs[r].newKey
       /\ reqs[r].newKey # Undefined
       /\ <<reqs[r].newKey, reqs[r].customer>> \notin issued

C28_Witness ==
  \E r \in Requests :
    /\ FailedAtSubscription(r)
    /\ reqs[r].resp.status = 400
    /\ SubById(reqs[r].active).status = "trialing"
    /\ Count(reqs[r].calls, "customers.create") = 1
    /\ CustomerById(reqs[r].customer).apiKey = reqs[r].newKey

\* The accounts whose email is e.
AccountsWithEmail(e) == {i \in 1..Len(customers) : customers[i].email = e}

\* C29: provisioning finds or creates the account by exact email: a
\* create-subscription request works on an account that carries the request's
\* email, the first match of the lookup; it creates an account only when the
\* lookup found none, so sequential requests leave at most one account per
\* email, and exactly one for an email a request got past the lookup with.
C29_OneAccountPerEmail ==
  /\ \A e \in Emails : Cardinality(AccountsWithEmail(e)) <= 1
  /\ \A r \in Requests :
       (reqs[r].op = "create" /\ reqs[r].customer # 0)
       => /\ reqs[r].customer \in CustomerIds
          /\ CustomerById(reqs[r].customer).email = reqs[r].email
          /\ reqs[r].customer = customersListByEmail(reqs[r].email, EmailPageLimit)[1].id
          /\ Cardinality(AccountsWithEmail(reqs[r].email)) = 1
          /\ Count(reqs[r].calls, "customers.create") <= 1

C29_Witness ==
  \E r \in Requests :
    /\ Finished(r, "create") /\ ValidOutcome(reqs[r].resp)
    /\ reqs[r].email = "b@x"
    /\ Count(reqs[r].calls, "customers.create") = 0
    /\ Len(customers) = 2
    /\ Cardinality(AccountsWithEmail("b@x")) = 1

\* C30: handleWebhook awaits the handler: a handler is invoked only for a
\* verified event, with the canonical object made from that event; while the
\* handler runs handleWebhook has produced no result, and a call that invoked
\* a handler has a result (or has thrown) only once the handler has settled.
C30_HandlerAwaited ==
  /\ call.invoked > 0
       => /\ call.verified
          /\ call.handler \in Handlers
          /\ call.data = transformWebhookData(call.type, call.amount)
          /\ call.data.type = call.type
  /\ call.pc = "handler"
       => /\ call.invoked = 1
          /\ call.raised = "none"
          /\ call.result = NoResult /\ ~call.thrown
  /\ (call.invoked > 0 /\ (call.result # NoResult \/ call.thrown))
       => /\ call.pc = "done"
          /\ call.raised \in {"returns", "Error", "null"}
          /\ call.raised = "returns" <=> call.result = SuccessResult(call)

C30_Witness ==
  /\ call.pc = "done" /\ call.verified /\ call.invoked = 1
  /\ call.raised = "returns"
  /\ call.result = [success |-> "true", eventType |-> "charge.refunded", error |-> ""]
  /\ call.data.shape = "ChargeRefund" /\ call.data.whole = 29 /\ call.data.hundredths = 99

\* The registry entry for a type as the on* calls so far have left it.
Registered(type) == LastRegistered(sdk.log, type)

\* C31: dispatch uses the handler registered for the event's type at the
\* moment of the lookup, which follows authorization and verification: a
\* registration made while the call was suspended before the lookup is used,
\* a registration made after the lookup leaves the delivery as it was.
C31_LookupAtDispatch ==
  [][/\ (~call.verified /\ call'.verified)
          => /\ call.pc \in {"resume", "fetch"}
             /\ sdk'.log = sdk.log
             /\ IF Registered(call.type) = "none"
                THEN call'.pc = "done" /\ call'.invoked = 0
                ELSE call'.pc = "handler" /\ call'.handler = Registered(call.type)
     /\ sdk'.log # sdk.log => call' = call
     /\ call.pc = "handler"
          => (call'.handler = call.handler /\ call'.invoked = call.invoked)]_vars

\* One delivery met both cases: h1 was registered after the call began and
\* before the lookup, h2 after the lookup; h1 ran and h2 did not.
C31_Witness ==
  /\ call.op = "handleWebhook" /\ call.pc = "done" /\ call.raised = "returns"
  /\ call.regs = 0
  /\ sdk.log = <<[type |-> call.type, handler |-> "h1"],
                 [type |-> call.type, handler |-> "h2"]>>
  /\ call.handler = "h1" /\ call.invoked = 1
  /\ lookupHandler(call.type) = "h2"

\* The positions, in the provider's listing, of the accounts holding a key.
HoldersOf(apiKey) == {i \in 1..Len(customers) : customers[i].apiKey = apiKey}

\* A finished validate-key request whose account listing was answered.
LookedUp(r) ==
  /\ Finished(r, "validate")
  /\ Len(reqs[r].calls) > 0 /\ reqs[r].failed # "customers.list"

\* C32: the directory lookup examines only the first page, CustomerPageLimit
\* accounts, of the listing: a key held by an account inside the page resolves
\* to that account, and a key whose only holder lies beyond the page gets the
\* not-found outcome, which needs more accounts than the page holds.
C32_LookupSeesFirstPageOnly ==
  \A r \in Requests :
    LookedUp(r)
    => LET holders == HoldersOf(reqs[r].apiKey)
           inPage == {i \in holders : i <= CustomerPageLimit}
       IN /\ inPage # {}
               => /\ reqs[r].resp # ValidateNotFound(reqs[r].v)
                  /\ \E i \in inPage : /\ customers[i].id = reqs[r].customer
                                       /\ \A j \in inPage : i <= j
          /\ inPage = {}
               => /\ reqs[r].resp = ValidateNotFound(reqs[r].v)
                  /\ reqs[r].customer = 0
                  /\ holders # {} => Len(customers) > CustomerPageLimit

C32_Witness ==
  \E r \in Requests :
    /\ LookedUp(r) /\ reqs[r].apiKey = ProdKey0
    /\ HoldersOf(ProdKey0) = {CustomerPageLimit + 1}
    /\ customers[CustomerPageLimit + 1].id = 1
    /\ \E i \in 1..Len(subs) : subs[i].customer = 1 /\ subs[i].status = "active"
    /\ reqs[r].resp.status = 401

\* The remote operations of the provider.
RemoteOperations ==
  {"customers.list", "customers.create", "customers.update",
   "subscriptions.list", "subscriptions.create", "createUsageRecord"}

\* C33: the gateway never retries an upstream call: a validate-key or
\* create-subscription request issues each remote operation at most once, and
\* an operation that failed is the last one of its kind the request issued: a
\* failed call ends the request, a failed usage submission is followed only by
\* the response.
C33_NoRetry ==
  \A r \in Requests :
    reqs[r].op \in {"validate", "create"}
    => /\ \A c \in RemoteOperations : Count(reqs[r].calls, c) <= 1
       /\ \A i \in 1..Len(reqs[r].calls) : reqs[r].calls[i] \in RemoteOperations
       /\ reqs[r].failed # ""
            => /\ reqs[r].pc = "done"
               /\ reqs[r].calls[Len(reqs[r].calls)] = reqs[r].failed
       /\ reqs[r].usageError
            => /\ reqs[r].pc = "done"
               /\ reqs[r].calls[Len(reqs[r].calls)] = "createUsageRecord"

C33_Witness ==
  \E r \in Requests :
    /\ Finished(r, "validate") /\ reqs[r].usageError
    /\ reqs[r].calls = <<"customers.list", "subscriptions.list", "createUsageRecord">>
    /\ SubById(reqs[r].active).usage = 0

\* C34: after any interleaving of concurrent create-subscription requests for
\* one previously unknown email, at most one account exists for that email.
C34_NoDuplicateAccount ==
  \A e \in Emails : Cardinality(AccountsWithEmail(e)) <= 1

\* A finished create-subscription request that was rejected for its input.
RejectedForInput(r) ==
  /\ Finished(r, "create")
  /\ reqs[r].resp.status = 400
  /\ reqs[r].resp.error \in {"Invalid plan selected", "Missing required fields"}

\* C35: a create-subscription request rejected for an invalid plan or a missing
\* field is rejected before any remote mutation: it issued neither
\* customers.create nor customers.update, on every create-subscription endpoint.
C35_RejectedBeforeMutation ==
  \A r \in Requests :
    RejectedForInput(r)
    => /\ Count(reqs[r].calls, "customers.create") = 0
       /\ Count(reqs[r].calls, "customers.update") = 0
       /\ reqs[r].newKey = Undefined

\* The second of two requests is a finished validate-key request, answered by
\* the provider, that presents the key which the first request, a successful
\* create-subscription for account c, returned.
ValidatesProvisionedKey(r, c) ==
  /\ started = 2
  /\ Finished(r, "validate")
  /\ Len(reqs[r].calls) > 0 /\ reqs[r].failed = ""
  /\ issued = {<<reqs[r].apiKey, c>>}
  /\ \E i \in 1..Len(subs) : subs[i].prov /\ subs[i].customer = c

\* C36: provision-then-validate round trip: the key a successful
\* create-subscription request returns is the key stored in the account's
\* metadata, and a validate-key call made with it right afterwards, with no
\* request in between, returns the valid outcome for the same account.
C36_ProvisionThenValidate ==
  \A r \in Requests :
    /\ (Finished(r, "create") /\ ValidOutcome(reqs[r].resp))
         => /\ reqs[r].resp.apiKey = reqs[r].newKey
            /\ CustomerById(reqs[r].customer).apiKey = reqs[r].resp.apiKey
    /\ \A c \in CustomerIds :
         ValidatesProvisionedKey(r, c)
         => /\ CustomerById(c).apiKey = reqs[r].apiKey
            /\ ValidOutcome(reqs[r].resp)
            /\ reqs[r].customer = c

\* The endpoint accepted the key: its success response.
EndpointAccepts(resp) == resp.status = 200 /\ resp.success = "true"

\* C37: the licensed SDK and POST /api/validate-key agree on both server
\* variants: for every response the endpoint gives, _validateKeyWithBackend
\* succeeds if the endpoint accepted the key and fails if it rejected it.
C37_SdkAgreesWithEndpoint ==
  \A r \in Requests :
    (Finished(r, "validate") /\ reqs[r].v \in {"part_001", "server"})
    => (EndpointAccepts(reqs[r].resp) <=> BackendValidates(fetchAnswer(reqs[r].resp)))

\* C38: through handleWebhook, with handlers registered by the on* methods
\* only, the pass-through branch of _transformWebhookData is never taken: only
\* the five mapped types ever have a handler, the transformer runs only when a
\* handler was found, and a delivery of any other type ends without a handler
\* call and without a transformed object.
C38_PassThroughUnreachable ==
  /\ \A t \in DOMAIN sdk.webhookHandlers :
       sdk.webhookHandlers[t] # "none" => t \in MappedTypes
  /\ \A i \in 1..Len(sdk.log) : sdk.log[i].type \in MappedTypes
  /\ call.op = "handleWebhook"
       => /\ call.data # NoData
               => /\ call.invoked > 0
                  /\ call.type \in MappedTypes
                  /\ call.data.shape \in {"PaymentOutcome", "SubscriptionLifecycle",
                                          "ChargeRefund"}
          /\ call.type \notin MappedTypes
               => /\ call.invoked = 0
                  /\ call.handler = "none"
                  /\ call.data = NoData

C38_Witness ==
  /\ call.op = "handleWebhook" /\ call.pc = "done" /\ call.verified
  /\ call.type = "invoice.paid"
  /\ call.result = [success |-> "true", eventType |-> "invoice.paid", error |-> ""]
  /\ call.data = NoData /\ call.invoked = 0
  /\ sdk.registrations = MaxRegistrations

====
